---- MODULE Spec2Model ----
(***************************************************************************)
(* FileMetadataStore (src/src/store/fileMetadataStore.ts): a MobX store    *)
(* that synchronises a local metadata database and serves paginated        *)
(* queries over it.  The store runs on one JavaScript thread: every action *)
(* below is one run-to-completion job (a public call up to its first       *)
(* await, a continuation after an await, or a collaborator callback),      *)
(* together with the MobX reaction (the autorun of syncWatcher) that the   *)
(* job triggers.                                                           *)
(***************************************************************************)
EXTENDS Integers, Sequences, FiniteSets, Bags

\* ------------------------------------------------------------------ bounds
MaxTasks == 2        \* async calls in flight at one time
MaxSubs == 2         \* startSync subscriptions opened
MaxInodes == 1       \* largest numSynced / total the database reports

\* --------------------------------------------------------- program values
\* `Infinity`, the initial totalInodesToSync: above every finite count.
Infinity == 2147483647
\* `undefined`, the initial value of the private field db.
Undefined == 0
\* syncError = null, and the one Error the store ever assigns to it.
NoError == "null"
IncorrectNetwork == "Incorrect network!"

\* Values the external database hands back (lib/db, outside this file).
SyncStates == [numSynced : 0..MaxInodes, total : 0..MaxInodes]
NoSyncState == [numSynced |-> -1, total |-> -1]
Responses == {[data |-> <<>>, total |-> 0], [data |-> <<"r1">>, total |-> 57]}
Queries == {"x"}
Pages == {0, 1, 3}
PageSizes == {20}

NoCall == [op |-> "none", query |-> "", limit |-> 0, offset |-> 0, page |-> 0]

VARIABLES
  searchResults,          \* @observable searchResults
  loadingSearchResults,   \* @observable loadingSearchResults
  total,                  \* @observable total
  resultsPerPage,         \* constructor argument
  autoSync,               \* constructor argument: was syncWatcher installed
  inodesSynced,           \* @observable inodesSynced
  totalInodesToSync,      \* @observable totalInodesToSync
  syncError,              \* @observable syncError
  db,                     \* private db: Undefined or the handle's identity
  handles,                \* number of FileMetadataDatabase objects constructed
  subs,                   \* callbacks registered through db.startSync
  tasks,                  \* bag of async calls suspended at an await
  watcherInit,            \* did the autorun call init() in the latest job
  call,                   \* the query the latest job sent to the database
  dbSynced                \* the database's own count of synced inodes

vars == <<searchResults, loadingSearchResults, total, resultsPerPage, autoSync,
          inodesSynced, totalInodesToSync, syncError, db, handles, subs,
          tasks, watcherInit, call, dbSynced>>

searchVars == <<searchResults, loadingSearchResults, total>>
syncVars == <<inodesSynced, totalInodesToSync>>
ctorVars == <<resultsPerPage, autoSync>>

\* ---------------------------------------------------------------- helpers
\* A getDb() without the `if (!this.db)` test.
getDbNoMemo(d, n) == [db |-> n + 1, handles |-> n + 1]
\* getDb(): construct the handle only when the field is still undefined.
getDb(d, n) ==
  IF d = Undefined THEN [db |-> n + 1, handles |-> n + 1]
                   ELSE [db |-> d, handles |-> n]

\* An isDbSynced comparing with >= instead of ===.
isDbSyncedAtLeast(i, t) == i >= t
\* get isDbSynced(): inodesSynced === totalInodesToSync.
isDbSyncedOf(i, t) == i = t

isDbSynced == isDbSyncedOf(inodesSynced, totalInodesToSync)

\* An offset that takes pages as 0-based.
offsetFromPage(rpp, page) == rpp * page
\* offset computed by search() and getLatest().
offset(rpp, page) == rpp * (page - 1)

\* limit computed by search() and getLatest().
limit(rpp) == rpp

\* An autorun re-run by every write of the sync state, changed or not.
syncWatcherOnEveryUpdate(auto, was, now) == auto /\ ~now
\* An autorun whose body tests isDbSynced instead of !isDbSynced.
syncWatcherWhenSynced(auto, was, now) == auto /\ was # now /\ now
\* The autorun of syncWatcher().  Its only observed dependency is the
\* computed isDbSynced, so MobX re-runs it exactly when that value changes
\* (was -> now); the body calls init() when the store is not synced.
syncWatcher(auto, was, now) == auto /\ was # now /\ ~now

\* A suspended call: its position, the handle getDb() gave it and, for an
\* init() awaiting getSyncState(), the count the database read for it.
Task(kind, pc, handle) ==
  [kind |-> kind, pc |-> pc, db |-> handle, read |-> 0]

One(t) == SetToBag({t})
Active == BagToSet(tasks)
Room(b) == BagCardinality(b) < MaxTasks

\* A job that leaves the autorun alone and sends no query.
Quiet == watcherInit' = FALSE /\ call' = NoCall

\* ------------------------------------------------------------------- Init
\* State after the constructor: the field initialisers, and with autoSync
\* the first run of the autorun, which finds isDbSynced false and calls
\* init() (whose synchronous part is the body of getDb()).
Init ==
  /\ searchResults = <<>>
  /\ loadingSearchResults = FALSE
  /\ total = 0
  /\ resultsPerPage \in PageSizes
  /\ autoSync \in BOOLEAN
  /\ inodesSynced = 0
  /\ totalInodesToSync = Infinity
  /\ syncError = NoError
  /\ subs = 0
  /\ LET first == autoSync /\ ~isDbSyncedOf(0, Infinity)
         g == getDb(Undefined, 0)
     IN /\ db = IF first THEN g.db ELSE Undefined
        /\ handles = IF first THEN g.handles ELSE 0
        /\ tasks = IF first
                     THEN One(Task("init", "getDb", g.db))
                     ELSE EmptyBag
        /\ watcherInit = first
        /\ call = NoCall
        /\ dbSynced = 0

\* ------------------------------------------------------- store procedures
Replace(t, pc) == (tasks (-) One(t)) (+) One([t EXCEPT !.pc = pc])
Remove(t) == tasks (-) One(t)

\* An updateSyncProgress() without `this.totalInodesToSync = ...`.
updateSyncProgressNoTotal(params) ==
  /\ inodesSynced' = params.numSynced
  /\ UNCHANGED totalInodesToSync
\* @action updateSyncProgress(params)
updateSyncProgress(params) ==
  /\ inodesSynced' = params.numSynced
  /\ totalInodesToSync' = params.total

\* An updateSearchResults() without `this.loadingSearchResults = false`.
updateSearchResultsKeepsLoading(params) ==
  /\ searchResults' = params.data
  /\ total' = params.total
  /\ UNCHANGED loadingSearchResults
\* An updateSearchResults() that drops a response arriving after another
\* query has already completed.
updateSearchResultsIfLoading(params) ==
  IF loadingSearchResults
    THEN /\ searchResults' = params.data
         /\ total' = params.total
         /\ loadingSearchResults' = FALSE
    ELSE UNCHANGED searchVars
\* @action updateSearchResults(params)
updateSearchResults(params) ==
  /\ searchResults' = params.data
  /\ total' = params.total
  /\ loadingSearchResults' = FALSE

\* A clearResults() that leaves the sync state alone.
clearResultsOnly ==
  /\ searchResults' = <<>>
  /\ UNCHANGED syncVars
\* @action clearResults()
clearResults ==
  /\ searchResults' = <<>>
  /\ totalInodesToSync' = Infinity
  /\ inodesSynced' = 0

\* init(), up to the first await of initiator(): the body of getDb().
\* `rest` is the bag of suspended calls the new one joins.
init(rest) ==
  LET g == getDb(db, handles)
  IN /\ Room(rest)
     /\ db' = g.db
     /\ handles' = g.handles
     /\ tasks' = rest (+) One(Task("init", "getDb", g.db))

\* End of a job that wrote inodesSynced / totalInodesToSync: MobX runs the
\* pending reaction, the autorun of syncWatcher, before the job returns.
Reaction(rest) ==
  LET w == syncWatcher(autoSync, isDbSynced,
                       isDbSyncedOf(inodesSynced', totalInodesToSync'))
  IN /\ IF w THEN init(rest)
             ELSE /\ tasks' = rest
                  /\ UNCHANGED <<db, handles>>
     /\ watcherInit' = w
     /\ call' = NoCall

\* ------------------------------------------------------------------ init()
\* A caller invokes init().
InitCall ==
  /\ init(tasks)
  /\ Quiet
  /\ UNCHANGED <<searchVars, syncVars, ctorVars, dbSynced, syncError, subs>>

\* initiator() resumes after `await this.getDb()` and calls getSyncState().
InitGetSyncState(t) ==
  /\ t.kind = "init" /\ t.pc = "getDb"
  /\ tasks' = Remove(t) (+)
                 One([t EXCEPT !.pc = "getSyncState", !.read = dbSynced])
  /\ Quiet
  /\ UNCHANGED <<searchVars, syncVars, ctorVars, dbSynced, syncError, subs, db, handles>>

\* getSyncState() resolves: publish it, then call db.startSync(callback).
GetSyncStateResolve(t, s) ==
  /\ t.kind = "init" /\ t.pc = "getSyncState"
  /\ subs < MaxSubs
  /\ updateSyncProgress(s)
  /\ Reaction(Remove(t) (+) One([t EXCEPT !.pc = "startSync", !.read = 0]))
  /\ subs' = subs + 1
  /\ UNCHANGED <<searchVars, ctorVars, dbSynced, syncError>>

\* A catch handler that also resets the sync state.
GetSyncStateRejectResets(t) ==
  /\ t.kind = "init" /\ t.pc = "getSyncState"
  /\ syncError' = IncorrectNetwork
  /\ inodesSynced' = 0
  /\ totalInodesToSync' = Infinity
  /\ Reaction(Remove(t))
  /\ UNCHANGED <<searchVars, ctorVars, dbSynced, subs>>
\* getSyncState() rejects: the catch handler of init() runs.
GetSyncStateReject(t) ==
  /\ t.kind = "init" /\ t.pc = "getSyncState"
  /\ syncError' = IncorrectNetwork
  /\ tasks' = Remove(t)
  /\ Quiet
  /\ UNCHANGED <<searchVars, syncVars, ctorVars, dbSynced, subs, db, handles>>

\* The promise of startSync() resolves: initiator() returns.
StartSyncResolve(t) ==
  /\ t.kind = "init" /\ t.pc = "startSync"
  /\ tasks' = Remove(t)
  /\ Quiet
  /\ UNCHANGED <<searchVars, syncVars, ctorVars, dbSynced, syncError, subs, db, handles>>

\* The promise of startSync() rejects: the catch handler of init() runs.
StartSyncReject(t) ==
  /\ t.kind = "init" /\ t.pc = "startSync"
  /\ syncError' = IncorrectNetwork
  /\ tasks' = Remove(t)
  /\ Quiet
  /\ UNCHANGED <<searchVars, syncVars, ctorVars, dbSynced, subs, db, handles>>

\* The database invokes a registered callback with (err, syncState).
\* Without a syncState the callback throws into the database's own code and
\* the store is left as it was; otherwise it publishes the state, after
\* only logging err.
SyncCallback(err, s) ==
  /\ subs > 0
  /\ IF s = NoSyncState
       THEN /\ Quiet
            /\ UNCHANGED <<syncVars, tasks, db, handles>>
       ELSE /\ updateSyncProgress(s)
            /\ Reaction(tasks)
  /\ UNCHANGED <<searchVars, ctorVars, dbSynced, syncError, subs>>

\* ------------------------------------------------ search() and getLatest()
\* The call a query issues: limit and offset from resultsPerPage and page.
QueryCall(op, query, page) ==
  [op |-> op, query |-> query, limit |-> limit(resultsPerPage),
   offset |-> offset(resultsPerPage, page), page |-> page]

\* A caller invokes search(params) / getLatest(params); the call runs the
\* body of getDb() and suspends at `await this.getDb()`.  params is not
\* read before the call resumes, so its value is drawn there.
Enter(kind) ==
  LET g == getDb(db, handles)
  IN /\ Room(tasks)
     /\ db' = g.db
     /\ handles' = g.handles
     /\ tasks' = tasks (+) One(Task(kind, "getDb", g.db))
     /\ Quiet

SearchCall ==
  /\ Enter("search")
  /\ UNCHANGED <<searchVars, syncVars, ctorVars, dbSynced, syncError, subs>>

GetLatestCall ==
  /\ Enter("getLatest")
  /\ UNCHANGED <<searchVars, syncVars, ctorVars, dbSynced, syncError, subs>>

\* The call resumes: limit, offset, loadingSearchResults = true, and the
\* query goes to the database.
Dispatch(t, kind, op, query, page) ==
  /\ t.kind = kind /\ t.pc = "getDb"
  /\ loadingSearchResults' = TRUE
  /\ tasks' = Replace(t, op)
  /\ watcherInit' = FALSE
  /\ call' = QueryCall(op, query, page)
  /\ UNCHANGED <<searchResults, total, syncVars, ctorVars, dbSynced, syncError, subs,
                 db, handles>>

SearchDispatch(t, query, page) == Dispatch(t, "search", "search", query, page)

GetLatestDispatch(t, page) == Dispatch(t, "getLatest", "latest", "", page)

\* A resolution that also clears syncError.
ResolveClearsError(t, kind, op, r) ==
  /\ t.kind = kind /\ t.pc = op
  /\ updateSearchResults(r)
  /\ syncError' = NoError
  /\ tasks' = Remove(t)
  /\ Quiet
  /\ UNCHANGED <<syncVars, ctorVars, dbSynced, subs, db, handles>>
\* The query resolves with {data, total}: updateSearchResults publishes it.
Resolve(t, kind, op, r) ==
  /\ t.kind = kind /\ t.pc = op
  /\ updateSearchResults(r)
  /\ tasks' = Remove(t)
  /\ Quiet
  /\ UNCHANGED <<syncVars, ctorVars, dbSynced, syncError, subs, db, handles>>

SearchResolve(t, r) == Resolve(t, "search", "search", r)

GetLatestResolve(t, r) == Resolve(t, "getLatest", "latest", r)

\* The query rejects: the await throws, the async function ends there and
\* its promise rejects to the caller.
Reject(t, kind, op) ==
  /\ t.kind = kind /\ t.pc = op
  /\ tasks' = Remove(t)
  /\ Quiet
  /\ UNCHANGED <<searchVars, syncVars, ctorVars, dbSynced, syncError, subs, db, handles>>

SearchReject(t) == Reject(t, "search", "search")

GetLatestReject(t) == Reject(t, "getLatest", "latest")

\* ----------------------------------------------------------------- clear()
ClearCall ==
  /\ Enter("clear")
  /\ UNCHANGED <<searchVars, syncVars, ctorVars, dbSynced, syncError, subs>>

\* clear() resumes after `await this.getDb()` and calls db.clearData().
ClearData(t) ==
  /\ t.kind = "clear" /\ t.pc = "getDb"
  /\ tasks' = Replace(t, "clearData")
  /\ Quiet
  /\ UNCHANGED <<searchVars, syncVars, ctorVars, dbSynced, syncError, subs, db, handles>>

\* A reset step that also drops the callbacks registered by startSync().
ClearDataResolveCancels(t) ==
  /\ t.kind = "clear" /\ t.pc = "clearData"
  /\ clearResults
  /\ Reaction(Remove(t))
  /\ subs' = 0
  /\ UNCHANGED <<loadingSearchResults, total, ctorVars, dbSynced, syncError>>
\* clearData() resolves: the reset step, clearResults().
ClearDataResolve(t) ==
  /\ t.kind = "clear" /\ t.pc = "clearData"
  /\ clearResults
  /\ Reaction(Remove(t))
  /\ UNCHANGED <<loadingSearchResults, total, ctorVars, dbSynced, syncError, subs>>

\* clearData() rejects: clear() ends without clearResults().
ClearDataReject(t) ==
  /\ t.kind = "clear" /\ t.pc = "clearData"
  /\ tasks' = Remove(t)
  /\ Quiet
  /\ UNCHANGED <<searchVars, syncVars, ctorVars, dbSynced, syncError, subs, db, handles>>

\* ------------------------------------------------------------- the system
Next ==
  \/ InitCall
  \/ \E t \in Active : InitGetSyncState(t)
  \/ \E t \in Active, s \in SyncStates : GetSyncStateResolve(t, s)
  \/ \E t \in Active : GetSyncStateReject(t)
  \/ \E t \in Active : StartSyncResolve(t)
  \/ \E t \in Active : StartSyncReject(t)
  \/ \E err \in BOOLEAN, s \in SyncStates \cup {NoSyncState} : SyncCallback(err, s)
  \/ SearchCall
  \/ GetLatestCall
  \/ \E t \in Active, q \in Queries, p \in Pages : SearchDispatch(t, q, p)
  \/ \E t \in Active, p \in Pages : GetLatestDispatch(t, p)
  \/ \E t \in Active, r \in Responses : SearchResolve(t, r)
  \/ \E t \in Active, r \in Responses : GetLatestResolve(t, r)
  \/ \E t \in Active : SearchReject(t)
  \/ \E t \in Active : GetLatestReject(t)
  \/ ClearCall
  \/ \E t \in Active : ClearData(t)
  \/ \E t \in Active : ClearDataResolve(t)
  \/ \E t \in Active : ClearDataReject(t)

Spec == Init /\ [][Next]_vars

\* Every suspended call is eventually resumed and every pending promise is
\* eventually settled; callers and the database's callbacks are free.
Settle ==
  \E t \in Active :
    \/ InitGetSyncState(t)
    \/ \E s \in SyncStates : GetSyncStateResolve(t, s)
    \/ GetSyncStateReject(t)
    \/ StartSyncResolve(t)
    \/ StartSyncReject(t)
    \/ \E q \in Queries, p \in Pages : SearchDispatch(t, q, p)
    \/ \E p \in Pages : GetLatestDispatch(t, p)
    \/ \E r \in Responses : SearchResolve(t, r)
    \/ \E r \in Responses : GetLatestResolve(t, r)
    \/ SearchReject(t)
    \/ GetLatestReject(t)
    \/ ClearData(t)
    \/ ClearDataResolve(t)
    \/ ClearDataReject(t)

FairSpec == Spec /\ WF_vars(Settle)

\* --------------------------------------- a database that only moves forward
\* Spec lets the database report any sync state at any time.  MonoSpec
\* gives it a count of synced inodes that only grows: getSyncState() reads
\* the count when it is called and resolves later, a callback carries the
\* count of the moment it is invoked.
DbProgress ==
  /\ dbSynced < MaxInodes
  /\ dbSynced' = dbSynced + 1
  /\ UNCHANGED <<searchVars, syncVars, ctorVars, syncError, db, handles, subs,
                 tasks, watcherInit, call>>

MonoNext ==
  \/ DbProgress
  \/ InitCall
  \/ \E t \in Active : InitGetSyncState(t)
  \/ \E t \in Active, s \in SyncStates :
       s.numSynced = t.read /\ GetSyncStateResolve(t, s)
  \/ \E t \in Active : GetSyncStateReject(t)
  \/ \E t \in Active : StartSyncResolve(t)
  \/ \E t \in Active : StartSyncReject(t)
  \/ \E err \in BOOLEAN, s \in SyncStates :
       s.numSynced = dbSynced /\ SyncCallback(err, s)
  \/ SearchCall
  \/ GetLatestCall
  \/ \E t \in Active, q \in Queries, p \in Pages : SearchDispatch(t, q, p)
  \/ \E t \in Active, p \in Pages : GetLatestDispatch(t, p)
  \/ \E t \in Active, r \in Responses : SearchResolve(t, r)
  \/ \E t \in Active, r \in Responses : GetLatestResolve(t, r)
  \/ \E t \in Active : SearchReject(t)
  \/ \E t \in Active : GetLatestReject(t)
  \/ ClearCall
  \/ \E t \in Active : ClearData(t)
  \/ \E t \in Active : ClearDataResolve(t)
  \/ \E t \in Active : ClearDataReject(t)

MonoSpec == Init /\ [][MonoNext]_vars

\* The database invokes a callback with a state whose numSynced equals its
\* total and no error.
CompletingEvent ==
  \E s \in SyncStates : s.numSynced = s.total /\ SyncCallback(FALSE, s)

\* The store driven through init(), the watcher, the database's callbacks
\* and clear() only: search() and getLatest() write none of the fields
\* that synchronization reads.
SyncNext ==
  \/ InitCall
  \/ \E t \in Active : InitGetSyncState(t)
  \/ \E t \in Active, s \in SyncStates : GetSyncStateResolve(t, s)
  \/ \E t \in Active : GetSyncStateReject(t)
  \/ \E t \in Active : StartSyncResolve(t)
  \/ \E t \in Active : StartSyncReject(t)
  \/ \E err \in BOOLEAN, s \in SyncStates \cup {NoSyncState} : SyncCallback(err, s)
  \/ ClearCall
  \/ \E t \in Active : ClearData(t)
  \/ \E t \in Active : ClearDataResolve(t)
  \/ \E t \in Active : ClearDataReject(t)

\* Every pending promise settles, and a database with an open subscription
\* keeps delivering progress events and eventually reports numSynced = total.
SyncedSpec ==
  Init /\ [][SyncNext]_vars /\ WF_vars(Settle) /\ WF_vars(CompletingEvent)

\* ------------------------------------------------------------------ claims
IsQuery(c) == c.op \in {"search", "latest"}

\* C1: a query with page >= 1 goes to the database with
\* limit = resultsPerPage and offset = resultsPerPage * (page - 1), so page 1
\* has offset 0.
C1_Pagination ==
  (IsQuery(call) /\ call.page >= 1) =>
    /\ call.limit = resultsPerPage
    /\ call.offset = resultsPerPage * (call.page - 1)
    /\ (call.page = 1 => call.offset = 0)

C1_Witness ==
  /\ call.op = "search"
  /\ call.page = 3
  /\ call.offset = 40

\* C2: isDbSynced is true exactly when inodesSynced equals totalInodesToSync
\* and totalInodesToSync is a known count (not Infinity); it is false
\* initially and after clear(), where totalInodesToSync is Infinity.
C2_SyncedIff ==
  isDbSynced <=>
    (inodesSynced = totalInodesToSync /\ totalInodesToSync # Infinity)

C2_Witness == isDbSynced /\ inodesSynced = MaxInodes

\* C3: the reset step of clear() leaves searchResults empty, inodesSynced 0
\* and totalInodesToSync Infinity, whatever the state before it.
C3_ClearResets ==
  [][(\E t \in Active : ClearDataResolve(t)) =>
       /\ searchResults' = <<>>
       /\ inodesSynced' = 0
       /\ totalInodesToSync' = Infinity]_vars

\* A reset that followed a published sync state and a completed query.
C3_Witness ==
  /\ subs > 0
  /\ total = 57
  /\ searchResults = <<>>
  /\ inodesSynced = 0
  /\ totalInodesToSync = Infinity

\* C4: at most one handle is ever constructed and every call suspended after
\* getDb() holds the handle stored in the store.
C4_OneHandle ==
  /\ handles <= 1
  /\ \A t \in Active : t.db = db /\ t.db # Undefined

\* Two init() calls overlapping at `await this.getDb()`.
C4_Witness == CopiesIn(Task("init", "getDb", db), tasks) = 2

\* C5: with auto-sync, no job that leaves isDbSynced true has the watcher
\* call init().
C5_NoInitWhileSynced == (autoSync /\ isDbSynced) => ~watcherInit

C5_Witness == autoSync /\ isDbSynced /\ inodesSynced = MaxInodes /\ subs > 0

\* C6 (as claimed): no query is sent to the database for page < 1, so none
\* carries a negative offset.
C6_BadPageRejected == IsQuery(call) => (call.page >= 1 /\ call.offset >= 0)

\* C7: the steps of an init() whose getSyncState() rejects leave
\* inodesSynced, totalInodesToSync and the subscriptions as they were, and
\* the rejection sets syncError to the fixed error and ends that init().
C7_SyncStateRejected ==
  [][/\ (InitCall \/ \E t \in Active : InitGetSyncState(t))
          => UNCHANGED <<syncVars, subs, syncError>>
     /\ \A t \in Active : GetSyncStateReject(t) =>
          /\ syncError' = IncorrectNetwork
          /\ UNCHANGED <<syncVars, subs>>
          /\ BagCardinality(tasks') = BagCardinality(tasks) - 1
          /\ ~watcherInit']_vars

\* The error is set, no subscription was ever opened, no progress published.
C7_Witness ==
  /\ syncError = IncorrectNetwork
  /\ subs = 0
  /\ inodesSynced = 0
  /\ totalInodesToSync = Infinity

\* C8 (as claimed): the job in which a query rejects sets
\* loadingSearchResults back to false.
C8_LoadingClearedOnFailure ==
  [][(\E t \in Active : SearchReject(t) \/ GetLatestReject(t)) =>
       loadingSearchResults' = FALSE]_vars

\* C9 (as claimed): a callback invoked with an error sets syncError to the
\* fixed error.
C9_CallbackErrorCaptured ==
  [][(\E s \in SyncStates \cup {NoSyncState} : SyncCallback(TRUE, s)) =>
       syncError' = IncorrectNetwork]_vars

\* C10 (as claimed): with auto-sync, a failed attempt (syncError set, not
\* synced) is followed by the watcher calling init() again; without
\* auto-sync the watcher never calls init().
C10_WatcherRetries ==
  /\ (autoSync /\ syncError = IncorrectNetwork /\ ~isDbSynced) ~> watcherInit
  /\ [](~autoSync => ~watcherInit)

\* C10 (amended): the watcher calls init() only in a job that turns
\* isDbSynced from true to false, so never in the job of a failed attempt;
\* without auto-sync it never calls init().
C10_WatcherOnlyOnDesync ==
  [][/\ watcherInit' => (autoSync /\ isDbSynced /\ ~isDbSynced')
     /\ (\E t \in Active : GetSyncStateReject(t) \/ StartSyncReject(t))
          => ~watcherInit']_vars

\* An attempt of the watcher failed, everything has settled, no retry.
C10_Witness ==
  /\ autoSync
  /\ syncError = IncorrectNetwork
  /\ ~isDbSynced
  /\ tasks = EmptyBag
  /\ ~watcherInit

IsPendingQuery(t) == t.kind \in {"search", "getLatest"}
AtDatabase(t) == t.pc \in {"search", "latest"}
QueryResolves(t, r) == SearchResolve(t, r) \/ GetLatestResolve(t, r)
ProgressPublished(s) ==
  \/ \E err \in BOOLEAN : SyncCallback(err, s)
  \/ \E t \in Active : GetSyncStateResolve(t, s)

\* C11: the job in which a query resolves with {data, total} publishes
\* searchResults = data, total = total and loadingSearchResults = false
\* together, in one step.
C11_AtomicPublish ==
  [][\A t \in Active, r \in Responses : QueryResolves(t, r) =>
       /\ searchResults' = r.data
       /\ total' = r.total
       /\ loadingSearchResults' = FALSE]_vars

C11_Witness ==
  /\ searchResults = <<"r1">>
  /\ total = 57
  /\ ~loadingSearchResults
  /\ tasks = EmptyBag

\* C12 (as claimed): while a search() or getLatest() call has been made and
\* has not completed, loadingSearchResults is true.
C12_LoadingWhilePending ==
  (\E t \in Active : IsPendingQuery(t)) => loadingSearchResults

\* C13 (as claimed): inodesSynced > totalInodesToSync, with the total known,
\* never stands with syncError still null.
C13_OverrunReported ==
  (totalInodesToSync # Infinity /\ inodesSynced > totalInodesToSync) =>
    syncError # NoError

\* C14 (as claimed): with auto-sync, every publication of a sync state that
\* leaves isDbSynced false has the watcher call init().
C14_InitOnEveryUpdate ==
  [][\A s \in SyncStates :
       (autoSync /\ ProgressPublished(s) /\ ~isDbSynced') => watcherInit']_vars

\* C14 (amended): with auto-sync, a publication of a sync state has the
\* watcher call init() exactly when it turns isDbSynced from true to false;
\* one that finds and leaves isDbSynced false calls nothing.
C14_InitOnlyOnDesync ==
  [][(watcherInit' # (autoSync /\ isDbSynced /\ ~isDbSynced')) =>
       \A s \in SyncStates : ~ProgressPublished(s)]_vars

\* A sync state was published with auto-sync, the store is still not synced
\* and the watcher has not called init().
C14_Witness ==
  /\ autoSync
  /\ subs > 0
  /\ totalInodesToSync = MaxInodes
  /\ inodesSynced = 0
  /\ ~watcherInit
  /\ syncError = NoError

\* C15: a query that resolves publishes its response whatever other queries
\* are pending or have completed since it was sent, and leaves the other
\* pending calls pending: the last query to complete decides the result.
C15_LastCompletionWins ==
  [][\A t \in Active, r \in Responses :
       (/\ QueryResolves(t, r)
        /\ \/ ~loadingSearchResults
           \/ \E u \in BagToSet(tasks (-) One(t)) : IsPendingQuery(u))
       => /\ searchResults' = r.data
          /\ total' = r.total
          /\ tasks' = tasks (-) One(t)]_vars

\* A query is still at the database although another query has completed
\* since it was sent (loadingSearchResults is false again) and published r1.
C15_Witness ==
  /\ ~loadingSearchResults
  /\ searchResults = <<"r1">>
  /\ \E t \in Active : IsPendingQuery(t) /\ AtDatabase(t)

\* C16 (as claimed): with a database whose count only grows, inodesSynced
\* decreases in no job but the reset of clear().
C16_NeverDecreases ==
  [][inodesSynced' >= inodesSynced
       \/ \E t \in Active : ClearDataResolve(t)]_vars

SyncStep ==
  \/ InitCall
  \/ \E t \in Active :
       /\ t.kind = "init"
       /\ \/ InitGetSyncState(t)
          \/ \E s \in SyncStates : GetSyncStateResolve(t, s)
          \/ GetSyncStateReject(t)
          \/ StartSyncResolve(t)
          \/ StartSyncReject(t)
  \/ \E err \in BOOLEAN, s \in SyncStates \cup {NoSyncState} : SyncCallback(err, s)

QueryStep ==
  \/ SearchCall
  \/ GetLatestCall
  \/ \E t \in Active :
       /\ IsPendingQuery(t)
       /\ \/ \E q \in Queries, p \in Pages : SearchDispatch(t, q, p)
          \/ \E p \in Pages : GetLatestDispatch(t, p)
          \/ \E r \in Responses : QueryResolves(t, r)
          \/ SearchReject(t)
          \/ GetLatestReject(t)

\* C17: the reset of clear() closes no subscription, the number of
\* subscriptions never decreases, and a callback invoked with a sync state
\* after a reset (subscriptions open, totalInodesToSync back at Infinity)
\* overwrites inodesSynced and totalInodesToSync.
C17_SubscriptionsSurviveClear ==
  [][/\ subs' >= subs
     /\ (\E t \in Active : ClearDataResolve(t)) => subs' = subs
     /\ (subs > 0 /\ totalInodesToSync = Infinity) =>
          \A err \in BOOLEAN, s \in SyncStates : SyncCallback(err, s) =>
            (inodesSynced' = s.numSynced /\ totalInodesToSync' = s.total)]_vars

\* The state a reset leaves, with the accumulated subscriptions still open
\* and no call in flight: only a callback can publish progress next.
C17_Witness ==
  /\ subs = MaxSubs
  /\ totalInodesToSync = Infinity
  /\ inodesSynced = 0
  /\ tasks = EmptyBag

\* C18: jobs of init() and of the callbacks leave searchResults, total and
\* loadingSearchResults alone; jobs of search() and getLatest() leave
\* inodesSynced, totalInodesToSync and syncError alone; a job that changes
\* fields of both groups is the reset of clear().
C18_DisjointFields ==
  [][/\ searchVars' # searchVars => ~SyncStep
     /\ <<syncVars, syncError>>' # <<syncVars, syncError>> => ~QueryStep
     /\ (searchVars' # searchVars /\ <<syncVars, syncError>>' # <<syncVars, syncError>>)
          => \E t \in Active : ClearDataResolve(t)]_vars

\* Both groups hold published values.
C18_Witness ==
  /\ searchResults = <<"r1">>
  /\ total = 57
  /\ inodesSynced = MaxInodes
  /\ totalInodesToSync = MaxInodes
  /\ syncError = IncorrectNetwork

\* C19 (as claimed): syncError becomes non-null only in the catch handler of
\* init(), and a completed initialization and the reset of clear() set it
\* back to null.
C19_ErrorSetAndCleared ==
  [][/\ (syncError' # NoError /\ syncError = NoError) =>
          \E t \in Active : GetSyncStateReject(t) \/ StartSyncReject(t)
     /\ (\E t \in Active : StartSyncResolve(t) \/ ClearDataResolve(t)) =>
          syncError' = NoError]_vars

\* C20: with auto-sync, once getSyncState() has succeeded and startSync()
\* has registered a callback, and the database goes on to report
\* numSynced = total, isDbSynced eventually becomes true, however many
\* init() calls and subscriptions the watcher has added.
C20_EventuallySynced == [](autoSync /\ subs > 0 => <>isDbSynced)

\* Synced with auto-sync after the subscriptions have piled up.
C20_Witness == autoSync /\ isDbSynced /\ subs = MaxSubs /\ tasks = EmptyBag

====
